---- MODULE Spec2Model ----
(***************************************************************************)
(* AWS profile utilities (src/utils/aws/profile-utils.ts):                 *)
(*   isRemoteSSH, doesAwsProfileExist, fileExists,                         *)
(*   showRemoteProfileError, getDetailedRemoteProfileErrorMessage.         *)
(*                                                                         *)
(* Text is a sequence of one-character strings, so that String.includes is *)
(* a real substring search.  The long fixed parts of the two user-facing   *)
(* messages are kept as whole segments of such a sequence.                 *)
(*                                                                         *)
(* doesAwsProfileExist is an async function: it runs to its next await in  *)
(* one step and is resumed when the awaited file operation settles.  The   *)
(* three synchronous functions run to completion in one step and may be    *)
(* called while a doesAwsProfileExist call is suspended.  What the host and *)
(* the file system answer (vscode.env.remoteName, os.homedir, fs.access,    *)
(* fs.readFile) is an input of the step that asks.                          *)
(***************************************************************************)
EXTENDS Integers, Sequences, FiniteSets, TLC

VARIABLES
    pc,             \* where the doesAwsProfileExist call in flight is suspended
    profile,        \* the argument of the doesAwsProfileExist call in flight
    ops,            \* the os and fs operations of the current/last call, in order
    promise,        \* the promise returned by the current/last doesAwsProfileExist call
    events,         \* what the logger and the UI notification sink received, in order
    ret,            \* the last call made: function, argument (for isRemoteSSH the
                    \* vscode.env.remoteName it read), returned value
    returned,       \* per profile, the texts getDetailedRemoteProfileErrorMessage returned
    nCalls          \* number of calls made so far

vars == <<pc, profile, ops, promise, events, ret, returned, nCalls>>

----------------------------------------------------------------------------
(* Bounds *)

\* the number of function calls in one behaviour
MaxCalls == 3
\* the number of lines of a file's text
MaxLines == 2

----------------------------------------------------------------------------
(* Values *)

Undefined == [defined |-> FALSE, str |-> ""]
Str(s) == [defined |-> TRUE, str |-> s]

\* values of vscode.env.remoteName: none, empty, SSH, dev container, WSL
RemoteNames == {Undefined, Str(""), Str("ssh-remote"), Str("devcontainer"), Str("wsl")}

\* the profile names the calls are made with
Profiles == {<<"a">>, <<"p","r","o","f","i","l","e"," ","a">>}

\* the lines the two files are made of: the section headers of profile a
Lines ==
    { <<"[","a","]">>,
      <<"[","p","r","o","f","i","l","e"," ","a","]">> }

RECURSIVE TextsOf(_)
TextsOf(n) ==
    IF n = 0 THEN {<< >>}
    ELSE LET shorter == TextsOf(n - 1)
         IN  shorter \cup Lines
                     \cup {t \o <<"\n">> \o l : t \in shorter \ {<< >>}, l \in Lines}

\* the texts a file may hold
Contents == TextsOf(MaxLines)

NoError == [message |-> ""]
Error(m) == [message |-> m]

\* os.homedir() returns or throws
HomedirOutcomes == {[ok |-> TRUE, error |-> NoError],
                    [ok |-> FALSE, error |-> Error("homedir failed")]}

\* fs.access(path) resolves or rejects
AccessOutcomes == {[ok |-> TRUE, error |-> NoError],
                   [ok |-> FALSE, error |-> Error("File not found")]}

\* the errors fs.readFile rejects with
ReadErrors == {Error("Permission denied"), Error("EISDIR: illegal operation on a directory, read")}

\* fs.readFile(path, 'utf8') resolves with the text or rejects
ReadOutcomes == {[ok |-> TRUE, text |-> t, error |-> NoError] : t \in Contents}
                \cup {[ok |-> FALSE, text |-> << >>, error |-> e] : e \in ReadErrors}

----------------------------------------------------------------------------
(* Pure functions *)

\* String.prototype.includes
Includes(content, sub) ==
    \E i \in 1..(Len(content) - Len(sub) + 1) :
        SubSeq(content, i, i + Len(sub) - 1) = sub

\* `[${profile}]`
CredentialsMarker(p) == <<"[">> \o p \o <<"]">>

\* `[profile ${profile}]`
ConfigMarker(p) == <<"[","p","r","o","f","i","l","e"," ">> \o p \o <<"]">>

\* variant: any remote counts as SSH (the isSSH test is dropped)
isRemoteSSHAnyRemote(v) ==
    LET isRemote == v # Undefined
    IN  isRemote

\* isRemoteSSH(), v the value of vscode.env.remoteName
isRemoteSSH(v) ==
    LET isRemote == v # Undefined
        isSSH == v = Str("ssh-remote")
    IN  isRemote /\ isSSH

\* the errorMessage of showRemoteProfileError
RemoteProfileErrorMessage(p) ==
    <<"AWS Profile \"">> \o p \o
    <<"\" not found", " in the remote SSH host. ",
      "When using VS Code with remote SSH, AWS profiles must exist on the remote machine. ",
      "Please either create the profile on the remote machine or use direct AWS credentials instead.">>

\* variant: the second and third option change places
getDetailedRemoteProfileErrorMessageReordered(p) ==
    <<"Error: ", "Could not find AWS profile \"">> \o p \o
    <<"\"", " on the remote SSH host.\n      \n",
      "When using VS Code with remote SSH, AWS profiles must exist on the remote machine.",
      "\n\n", "Options to resolve this issue", ":\n",
      "1. ", "Create the AWS profile on the remote machine", "\n",
      "2. ", "Copy your AWS credentials from your local machine", " to the remote machine", "\n",
      "3. ", "Switch to using direct AWS credentials", " instead of a profile">>

getDetailedRemoteProfileErrorMessage(p) ==
    <<"Error: ", "Could not find AWS profile \"">> \o p \o
    <<"\"", " on the remote SSH host.\n      \n",
      "When using VS Code with remote SSH, AWS profiles must exist on the remote machine.",
      "\n\n", "Options to resolve this issue", ":\n",
      "1. ", "Create the AWS profile on the remote machine", "\n",
      "2. ", "Switch to using direct AWS credentials", " instead of a profile", "\n",
      "3. ", "Copy your AWS credentials from your local machine", " to the remote machine">>

----------------------------------------------------------------------------
(* Log entries and notifications *)

\* error instanceof Error ? error.message : String(error); what os.homedir and
\* fs reject with are Error objects
ErrorText(error) == error.message

CredentialsDebugEntry(error) ==
    [kind |-> "log", level |-> "debug",
     message |-> <<"Error checking AWS credentials file">>,
     context |-> [ctx |-> "aws-profile", error |-> ErrorText(error)]]

ConfigDebugEntry(error) ==
    [kind |-> "log", level |-> "debug",
     message |-> <<"Error checking AWS config file">>,
     context |-> [ctx |-> "aws-profile", error |-> ErrorText(error)]]

\* variant: the outer catch logs with logger.debug
ErrorEntryAtDebug(p, error) ==
    [kind |-> "log", level |-> "debug",
     message |-> <<"Error checking for AWS profile existence">>,
     context |-> [ctx |-> "aws-profile", profile |-> p, error |-> ErrorText(error)]]

ErrorEntry(p, error) ==
    [kind |-> "log", level |-> "error",
     message |-> <<"Error checking for AWS profile existence">>,
     context |-> [ctx |-> "aws-profile", profile |-> p, error |-> ErrorText(error)]]

WarnEntry(p) ==
    [kind |-> "log", level |-> "warn",
     message |-> RemoteProfileErrorMessage(p),
     context |-> [ctx |-> "bedrock", profile |-> p, isRemoteSSH |-> TRUE]]

Notification(p) ==
    [kind |-> "notification", level |-> "error",
     message |-> RemoteProfileErrorMessage(p),
     context |-> [ctx |-> "ui"]]

\* variant: the notification is shown before the warning is logged
showRemoteProfileErrorNotifyFirst(p) == <<Notification(p), WarnEntry(p)>>

\* what showRemoteProfileError does, in order
showRemoteProfileError(p) == <<WarnEntry(p), Notification(p)>>

----------------------------------------------------------------------------
(* doesAwsProfileExist: each operator is the code run from one await to the *)
(* next.  It yields where the call is suspended next (pc), the operations   *)
(* it issues, the log entries it records and the promise.                   *)

Pending == [state |-> "pending", value |-> FALSE, reason |-> NoError]
Fulfilled(b) == [state |-> "fulfilled", value |-> b, reason |-> NoError]
Rejected(error) == [state |-> "rejected", value |-> FALSE, reason |-> error]

\* a file operation issued and not yet settled
FsOp(op, file) ==
    [op |-> op, file |-> file, status |-> "pending", text |-> << >>, error |-> NoError]

\* os.homedir() called, with its outcome h
HomedirOp(h) ==
    [op |-> "homedir", file |-> "", status |-> IF h.ok THEN "ok" ELSE "failed",
     text |-> << >>, error |-> h.error]

Await(at, op, file) ==
    [pc |-> at, issue |-> <<FsOp(op, file)>>, emit |-> << >>, promise |-> Pending]

Return(b) ==
    [pc |-> "idle", issue |-> << >>, emit |-> << >>, promise |-> Fulfilled(b)]

\* variant: the outer catch rethrows
TopLevelCatchRethrows(p, error) ==
    [pc |-> "idle", issue |-> << >>, emit |-> <<ErrorEntry(p, error)>>,
     promise |-> Rejected(error)]

\* the outer catch
TopLevelCatch(p, error) ==
    [pc |-> "idle", issue |-> << >>, emit |-> <<ErrorEntry(p, error)>>,
     promise |-> Fulfilled(FALSE)]

\* fileExists: true when fs.access resolved, false when it rejected
fileExists(a) == IF a.ok THEN TRUE ELSE FALSE

\* from the call to the await of fs.access on the credentials file
CheckCredentialsFile(p, h) ==
    LET next == IF h.ok THEN Await("credentialsAccess", "access", "credentials")
                ELSE TopLevelCatch(p, h.error)
    IN  [next EXCEPT !.issue = <<HomedirOp(h)>> \o @]

\* from the end of the credentials check to the await of fs.access on the config file
CheckConfigFile(p, h) ==
    LET next == IF h.ok THEN Await("configAccess", "access", "config")
                ELSE TopLevelCatch(p, h.error)
    IN  [next EXCEPT !.issue = <<HomedirOp(h)>> \o @]

\* variant: the catch of the credentials check returns false
CatchCredentialsAborts(p, error, h) ==
    [Return(FALSE) EXCEPT !.emit = <<CredentialsDebugEntry(error)>>]

\* the catch of the credentials check, then on to the config check
CatchCredentials(p, error, h) ==
    LET next == CheckConfigFile(p, h)
    IN  [next EXCEPT !.emit = <<CredentialsDebugEntry(error)>> \o @]

\* the catch of the config check, then the final return
CatchConfig(p, error) ==
    [Return(FALSE) EXCEPT !.emit = <<ConfigDebugEntry(error)>>]

\* fileExists(credentialsPath) has settled
AfterCredentialsAccess(p, a, h) ==
    IF fileExists(a) THEN Await("credentialsRead", "read", "credentials")
    ELSE CheckConfigFile(p, h)

\* variant: a hit in the credentials file does not return
AfterCredentialsReadNoReturn(p, r, h) ==
    IF r.ok THEN CheckConfigFile(p, h)
    ELSE CatchCredentials(p, r.error, h)

\* fs.readFile(credentialsPath) has settled
AfterCredentialsRead(p, r, h) ==
    IF r.ok
    THEN IF Includes(r.text, CredentialsMarker(p)) THEN Return(TRUE)
         ELSE CheckConfigFile(p, h)
    ELSE CatchCredentials(p, r.error, h)

\* variant: the rejection of fs.access reaches the catch of the config check
AfterConfigAccessThrows(p, a) ==
    IF a.ok THEN Await("configRead", "read", "config")
    ELSE CatchConfig(p, a.error)

\* fileExists(configPath) has settled
AfterConfigAccess(p, a) ==
    IF fileExists(a) THEN Await("configRead", "read", "config")
    ELSE Return(FALSE)

\* variant: the config text is searched for the credentials marker
AfterConfigReadCredentialsMarker(p, r) ==
    IF r.ok
    THEN IF Includes(r.text, CredentialsMarker(p)) THEN Return(TRUE)
         ELSE Return(FALSE)
    ELSE CatchConfig(p, r.error)

\* variant: a failed read of the config file is tried again
AfterConfigReadRetries(p, r) ==
    IF r.ok
    THEN IF Includes(r.text, ConfigMarker(p)) THEN Return(TRUE)
         ELSE Return(FALSE)
    ELSE Await("configRead", "read", "config")

\* fs.readFile(configPath) has settled
AfterConfigRead(p, r) ==
    IF r.ok
    THEN IF Includes(r.text, ConfigMarker(p)) THEN Return(TRUE)
         ELSE Return(FALSE)
    ELSE CatchConfig(p, r.error)

----------------------------------------------------------------------------
(* State machine *)

Init ==
    /\ pc = "idle"
    /\ profile = << >>
    /\ ops = << >>
    /\ promise = [state |-> "none", value |-> FALSE, reason |-> NoError]
    /\ events = << >>
    /\ ret = [fn |-> "none", arg |-> << >>, value |-> << >>]
    /\ returned = [p \in Profiles |-> << >>]
    /\ nCalls = 0

\* the pending operation (the last one issued) settles with outcome o
Settle(trace, o) ==
    [trace EXCEPT ![Len(trace)] =
        [@ EXCEPT !.status = IF o.ok THEN "ok" ELSE "failed",
                  !.text = IF "text" \in DOMAIN o THEN o.text ELSE << >>,
                  !.error = o.error]]

\* the call in flight is resumed and runs to its next await or to its end
Resume(trace, next) ==
    /\ pc' = next.pc
    /\ ops' = trace \o next.issue
    /\ events' = events \o next.emit
    /\ promise' = next.promise
    /\ UNCHANGED <<profile, ret, returned, nCalls>>

CallDoesAwsProfileExist ==
    /\ pc = "idle"
    /\ nCalls < MaxCalls
    /\ \E p \in Profiles, h \in HomedirOutcomes :
        LET next == CheckCredentialsFile(p, h)
        IN  /\ profile' = p
            /\ pc' = next.pc
            /\ ops' = next.issue
            /\ events' = events \o next.emit
            /\ promise' = next.promise
            /\ ret' = [fn |-> "doesAwsProfileExist", arg |-> p, value |-> << >>]
    /\ nCalls' = nCalls + 1
    /\ UNCHANGED returned

CredentialsAccessSettles ==
    /\ pc = "credentialsAccess"
    /\ \E a \in AccessOutcomes, h \in HomedirOutcomes :
        Resume(Settle(ops, a), AfterCredentialsAccess(profile, a, h))

CredentialsReadSettles ==
    /\ pc = "credentialsRead"
    /\ \E r \in ReadOutcomes, h \in HomedirOutcomes :
        Resume(Settle(ops, r), AfterCredentialsRead(profile, r, h))

ConfigAccessSettles ==
    /\ pc = "configAccess"
    /\ \E a \in AccessOutcomes :
        Resume(Settle(ops, a), AfterConfigAccess(profile, a))

ConfigReadSettles ==
    /\ pc = "configRead"
    /\ \E r \in ReadOutcomes :
        Resume(Settle(ops, r), AfterConfigRead(profile, r))

CallIsRemoteSSH ==
    /\ nCalls < MaxCalls
    /\ \E remoteName \in RemoteNames :
        ret' = [fn |-> "isRemoteSSH", arg |-> <<remoteName>>,
                value |-> <<isRemoteSSH(remoteName)>>]
    /\ nCalls' = nCalls + 1
    /\ UNCHANGED <<pc, profile, ops, promise, events, returned>>

CallShowRemoteProfileError ==
    /\ nCalls < MaxCalls
    /\ \E p \in Profiles :
        /\ events' = events \o showRemoteProfileError(p)
        /\ ret' = [fn |-> "showRemoteProfileError", arg |-> p, value |-> << >>]
    /\ nCalls' = nCalls + 1
    /\ UNCHANGED <<pc, profile, ops, promise, returned>>

CallGetDetailedRemoteProfileErrorMessage ==
    /\ nCalls < MaxCalls
    /\ \E p \in Profiles :
        LET text == getDetailedRemoteProfileErrorMessage(p)
        IN  /\ ret' = [fn |-> "getDetailedRemoteProfileErrorMessage", arg |-> p,
                       value |-> text]
            /\ returned' = [returned EXCEPT ![p] = Append(@, text)]
    /\ nCalls' = nCalls + 1
    /\ UNCHANGED <<pc, profile, ops, promise, events>>

Next ==
    \/ CallDoesAwsProfileExist
    \/ CredentialsAccessSettles
    \/ CredentialsReadSettles
    \/ ConfigAccessSettles
    \/ ConfigReadSettles
    \/ CallIsRemoteSSH
    \/ CallShowRemoteProfileError
    \/ CallGetDetailedRemoteProfileErrorMessage

Spec == Init /\ [][Next]_vars

----------------------------------------------------------------------------
(* Observations used by the properties *)

\* the file operations of a trace, without the os.homedir() calls
FileOps(trace) == SelectSeq(trace, LAMBDA o : o.op # "homedir")

LastOp(trace) == trace[Len(trace)]

\* what the sinks received in this step
NewEvents == SubSeq(events', Len(events) + 1, Len(events'))

LogsAt(es, level) == SelectSeq(es, LAMBDA e : e.kind = "log" /\ e.level = level)

\* a step of the doesAwsProfileExist call: the call itself or a resumption
CheckCalled == nCalls' = nCalls + 1 /\ ret'.fn = "doesAwsProfileExist"
CheckResumed == pc # "idle" /\ nCalls' = nCalls /\ Len(ops') >= Len(ops) /\ ops' # ops

\* the operation that was pending before a resumption, as it settled
SettledOp == ops'[Len(ops)]

\* the code reached the outer catch in this step: os.homedir() threw
ReachedTopLevel ==
    /\ CheckCalled \/ CheckResumed
    /\ LastOp(ops').op = "homedir"
    /\ LastOp(ops').status = "failed"

\* the call has settled
Settled == pc = "idle" /\ promise.state # "none"

HasOp(trace, op, file, status) ==
    \E i \in DOMAIN trace :
        trace[i].op = op /\ trace[i].file = file /\ trace[i].status = status

\* the file was accessible and read, and its text contains the marker
Hit(trace, file, marker) ==
    \E i, j \in DOMAIN trace :
        /\ i < j
        /\ trace[i].op = "access" /\ trace[i].file = file /\ trace[i].status = "ok"
        /\ trace[j].op = "read" /\ trace[j].file = file /\ trace[j].status = "ok"
        /\ Includes(trace[j].text, marker)

----------------------------------------------------------------------------
(* C1 *)

\* C1: the promise of doesAwsProfileExist is never rejected; once the call is
\* over it is fulfilled with a boolean, whatever os.homedir, fs.access and
\* fs.readFile did.
C1_NeverRejects ==
    /\ promise.state \in {"none", "pending", "fulfilled"}
    /\ promise.state = "fulfilled" => promise.value \in BOOLEAN
    /\ Settled => promise.state = "fulfilled"
    /\ pc # "idle" => promise.state = "pending"

\* both files passed the access check and then failed to be read; the call is over
C1_Witness ==
    /\ Settled
    /\ promise.state = "fulfilled"
    /\ HasOp(ops, "access", "credentials", "ok")
    /\ HasOp(ops, "read", "credentials", "failed")
    /\ HasOp(ops, "access", "config", "ok")
    /\ HasOp(ops, "read", "config", "failed")

----------------------------------------------------------------------------
(* C2 *)

\* C2: the call resolves true exactly when the credentials file was accessible,
\* was read and contains "[p]", or the config file was accessible, was read and
\* contains "[profile p]"; in every other case it resolves false.
C2_TrueIffMarker ==
    Settled /\ promise.state = "fulfilled" =>
        (promise.value <=>
            \/ Hit(ops, "credentials", <<"[">> \o profile \o <<"]">>)
            \/ Hit(ops, "config",
                   <<"[","p","r","o","f","i","l","e"," ">> \o profile \o <<"]">>))

\* "[profile a]" only in the credentials file and "[a]" only in the config file:
\* the check of profile a resolves false
C2_Witness ==
    /\ Settled
    /\ profile = <<"a">>
    /\ promise = Fulfilled(FALSE)
    /\ \E i, j \in DOMAIN ops :
        /\ ops[i].op = "read" /\ ops[i].file = "credentials" /\ ops[i].status = "ok"
        /\ ops[i].text = <<"[","p","r","o","f","i","l","e"," ","a","]">>
        /\ ops[j].op = "read" /\ ops[j].file = "config" /\ ops[j].status = "ok"
        /\ ops[j].text = <<"[","a","]">>

----------------------------------------------------------------------------
(* C3 *)

\* C3: isRemoteSSH() returns true exactly when vscode.env.remoteName is
\* "ssh-remote" (false for undefined, "" and every other remote kind), and it
\* changes nothing.
C3_IsRemoteSSH ==
    [][ (nCalls' = nCalls + 1 /\ ret'.fn = "isRemoteSSH") =>
            /\ ret'.value = <<ret'.arg[1] = Str("ssh-remote")>>
            /\ UNCHANGED <<pc, profile, ops, promise, events, returned>> ]_vars

\* isRemoteSSH was called in a dev container, while a check was suspended
C3_Witness ==
    /\ ret.fn = "isRemoteSSH"
    /\ ret.arg = <<Str("devcontainer")>>
    /\ ret.value = <<FALSE>>
    /\ pc # "idle"

----------------------------------------------------------------------------
(* C4 *)

\* C4: the two file checks are sequential and short-circuit: at most one file
\* operation is in flight, no operation on the config file is issued before the
\* credentials check is over, and when the credentials text contains "[p]" the
\* call resolves true with no operation on the config file.
C4_SequentialShortCircuit ==
    LET f == FileOps(ops)
    IN  /\ \A i \in DOMAIN f : f[i].status = "pending" => i = Len(f)
        /\ \A i \in DOMAIN f :
              f[i].file = "config" =>
                  /\ \A j \in DOMAIN f :
                        f[j].file = "credentials" => j < i /\ f[j].status # "pending"
                  /\ \/ HasOp(f, "access", "credentials", "failed")
                     \/ HasOp(f, "read", "credentials", "ok")
                     \/ HasOp(f, "read", "credentials", "failed")
        /\ Hit(f, "credentials", <<"[">> \o profile \o <<"]">>) =>
              /\ promise = Fulfilled(TRUE)
              /\ pc = "idle"
              /\ \A i \in DOMAIN f : f[i].file # "config"

\* the credentials file holds the marker at the end of a longer text: the call
\* is over after two file operations
C4_Witness ==
    /\ promise = Fulfilled(TRUE)
    /\ Len(FileOps(ops)) = 2
    /\ profile = <<"a">>
    /\ \E i \in DOMAIN ops :
        /\ ops[i].op = "read" /\ ops[i].file = "credentials"
        /\ ops[i].text = <<"[","p","r","o","f","i","l","e"," ","a","]","\n","[","a","]">>

----------------------------------------------------------------------------
(* C5 *)

\* the debug entry of a failed check: debug severity, carrying the error's message
IsDebugOf(e, op) ==
    /\ e.kind = "log"
    /\ e.level = "debug"
    /\ e.context.error = op.error.message

\* C5: a read that fails after the access check succeeded is caught and logged at
\* debug severity with the error's message, and the call goes on: after the
\* credentials file to the config check, after the config file to resolving
\* false; a failed credentials read followed by a config text containing
\* "[profile p]" resolves true.
C5_ReadFailureHandled ==
    [][ /\ (CheckResumed /\ pc = "credentialsRead" /\ SettledOp.status = "failed") =>
              /\ Len(NewEvents) >= 1
              /\ IsDebugOf(NewEvents[1], SettledOp)
              /\ LogsAt(NewEvents, "debug") = <<NewEvents[1]>>
              /\ \/ /\ pc' = "configAccess"
                    /\ promise' = Pending
                    /\ LastOp(ops') = FsOp("access", "config")
                    /\ Len(NewEvents) = 1
                 \/ ReachedTopLevel
        /\ (CheckResumed /\ pc = "configRead" /\ SettledOp.status = "failed") =>
              /\ Len(NewEvents) = 1
              /\ IsDebugOf(NewEvents[1], SettledOp)
              /\ pc' = "idle"
              /\ promise' = Fulfilled(FALSE)
        /\ ( /\ HasOp(ops', "read", "credentials", "failed")
             /\ Hit(ops', "config",
                    <<"[","p","r","o","f","i","l","e"," ">> \o profile' \o <<"]">>) )
              => promise' = Fulfilled(TRUE) ]_vars

\* both reads failed after their access checks: two debug entries, resolved false
C5_Witness ==
    /\ promise = Fulfilled(FALSE)
    /\ HasOp(ops, "read", "credentials", "failed")
    /\ HasOp(ops, "read", "config", "failed")
    /\ Len(LogsAt(events, "debug")) = 2
    /\ LogsAt(events, "error") = << >>

----------------------------------------------------------------------------
(* C6 *)

\* a failed access check on the credentials file lets the call go on to the
\* config check, one on the config file lets it resolve false
FallsThrough ==
    /\ pc = "credentialsAccess" =>
          \/ pc' = "configAccess" /\ promise' = Pending
                /\ LastOp(ops') = FsOp("access", "config")
          \/ ReachedTopLevel
    /\ pc = "configAccess" => pc' = "idle" /\ promise' = Fulfilled(FALSE)

AccessFails ==
    /\ CheckResumed
    /\ pc \in {"credentialsAccess", "configAccess"}
    /\ SettledOp.status = "failed"

\* C6 as stated: a file that is not found or inaccessible gets a debug-level log
\* entry, and the check goes on to the next file or to false.
C6_AccessFailureLogged ==
    [][ AccessFails => /\ LogsAt(NewEvents, "debug") # << >>
                       /\ FallsThrough ]_vars

\* C6 as the code has it: a file that is not found or inaccessible gets no debug
\* entry (fileExists swallows the failure of fs.access), and the check goes on to
\* the next file or to false.
C6_AccessFailureSilent ==
    [][ AccessFails => /\ LogsAt(NewEvents, "debug") = << >>
                       /\ LogsAt(NewEvents, "warn") = << >>
                       /\ ~ReachedTopLevel => NewEvents = << >>
                       /\ FallsThrough ]_vars

\* neither file is accessible: resolved false, and the sinks received nothing
C6_Witness ==
    /\ promise = Fulfilled(FALSE)
    /\ HasOp(ops, "access", "credentials", "failed")
    /\ HasOp(ops, "access", "config", "failed")
    /\ events = << >>

----------------------------------------------------------------------------
(* C7 *)

\* C7: an error that reaches the outer catch is logged once, at error severity,
\* with the profile and the error's message, and the call resolves false; an
\* error-severity entry is logged on no other path.
C7_TopLevelErrorLogged ==
    [][ /\ ReachedTopLevel =>
              /\ Len(LogsAt(NewEvents, "error")) = 1
              /\ NewEvents[Len(NewEvents)].kind = "log"
              /\ NewEvents[Len(NewEvents)].level = "error"
              /\ NewEvents[Len(NewEvents)].context.profile = profile'
              /\ NewEvents[Len(NewEvents)].context.error = LastOp(ops').error.message
              /\ pc' = "idle"
              /\ promise' = Fulfilled(FALSE)
        /\ LogsAt(NewEvents, "error") # << >> => ReachedTopLevel ]_vars

\* os.homedir() threw at the start of the config check, after the credentials
\* file was read
C7_Witness ==
    /\ Len(ops) > 1
    /\ LastOp(ops).op = "homedir"
    /\ LastOp(ops).status = "failed"
    /\ HasOp(ops, "read", "credentials", "ok")
    /\ Len(LogsAt(events, "error")) = 1
    /\ promise = Fulfilled(FALSE)

----------------------------------------------------------------------------
(* C8 *)

\* C8: showRemoteProfileError(p) makes one warn-level log call and then one UI
\* error notification, both with the same message naming p; the log context is
\* ctx "bedrock", profile p, isRemoteSSH true; nothing else is logged, nothing is
\* returned.
C8_Notifier ==
    [][ (nCalls' = nCalls + 1 /\ ret'.fn = "showRemoteProfileError") =>
            LET p == ret'.arg
                n == NewEvents
            IN  /\ Len(n) = 2
                /\ n[1].kind = "log" /\ n[1].level = "warn"
                /\ n[2].kind = "notification"
                /\ n[2].message = n[1].message
                /\ Includes(n[1].message, <<"AWS Profile \"">> \o p \o <<"\" not found">>)
                /\ n[1].context = [ctx |-> "bedrock", profile |-> p, isRemoteSSH |-> TRUE]
                /\ ret'.value = << >>
                /\ UNCHANGED <<pc, profile, ops, promise, returned>> ]_vars

\* the notifier was called while a check was suspended after a failed read
C8_Witness ==
    /\ ret.fn = "showRemoteProfileError"
    /\ pc = "configAccess"
    /\ Len(events) = 3
    /\ events[1].level = "debug"
    /\ events[2].level = "warn"
    /\ events[3].kind = "notification"

----------------------------------------------------------------------------
(* C9 *)

RECURSIVE IndexFrom(_, _, _)
\* the first position at or after i where sub occurs in text, 0 when none
IndexFrom(text, sub, i) ==
    IF i + Len(sub) - 1 > Len(text) THEN 0
    ELSE IF SubSeq(text, i, i + Len(sub) - 1) = sub THEN i
    ELSE IndexFrom(text, sub, i + 1)

IndexOf(text, sub) == IndexFrom(text, sub, 1)

\* C9: getDetailedRemoteProfileErrorMessage(p) has no effect and always returns
\* the same text for p, whatever was called in between; the text has the header
\* naming p, "Options to resolve this issue" and the three options in the order
\* create remotely, direct credentials, copy credentials.
C9_FormatterPure ==
    [][ (nCalls' = nCalls + 1 /\ ret'.fn = "getDetailedRemoteProfileErrorMessage") =>
            LET p == ret'.arg
                text == ret'.value
                header == IndexOf(text, <<"Could not find AWS profile \"">> \o p \o <<"\"">>)
                options == IndexOf(text, <<"Options to resolve this issue">>)
                create == IndexOf(text, <<"Create the AWS profile on the remote machine">>)
                switch == IndexOf(text, <<"Switch to using direct AWS credentials">>)
                copy == IndexOf(text, <<"Copy your AWS credentials from your local machine">>)
            IN  /\ UNCHANGED <<pc, profile, ops, promise, events>>
                /\ \A i \in DOMAIN returned'[p] : returned'[p][i] = text
                /\ 0 < header /\ header < options /\ options < create
                /\ create < switch /\ switch < copy ]_vars

\* the formatter was called twice for one profile around a failed read of a
\* suspended check
C9_Witness ==
    \E p \in Profiles :
        /\ Len(returned[p]) = 2
        /\ ret.fn = "getDetailedRemoteProfileErrorMessage"
        /\ pc # "idle"
        /\ events # << >>

----------------------------------------------------------------------------
(* C10 *)

\* the place of a file operation in the order of the code
Rank(o) ==
    CASE o.op = "access" /\ o.file = "credentials" -> 1
      [] o.op = "read" /\ o.file = "credentials" -> 2
      [] o.op = "access" /\ o.file = "config" -> 3
      [] o.op = "read" /\ o.file = "config" -> 4

\* C10: within one call the file operations are, in this order and each at most
\* once, some of access(credentials), read(credentials), access(config),
\* read(config); a file is read only after its access check succeeded in this call.
C10_NoRetries ==
    LET f == FileOps(ops)
    IN  /\ \A i, j \in DOMAIN f : i < j => Rank(f[i]) < Rank(f[j])
        /\ \A i \in DOMAIN f :
              f[i].op = "read" =>
                  \E j \in 1..(i - 1) :
                      /\ f[j].op = "access"
                      /\ f[j].file = f[i].file
                      /\ f[j].status = "ok"

\* all four file operations were made, both reads failed, none was repeated
C10_Witness ==
    /\ Settled
    /\ Len(FileOps(ops)) = 4
    /\ HasOp(ops, "read", "credentials", "failed")
    /\ HasOp(ops, "read", "config", "failed")

====
